---------------------------- MODULE Spec2Model ----------------------------
(***************************************************************************)
(* Model of src/app.py: the IGCSE Science Quiz Generator (Streamlit).      *)
(*                                                                         *)
(* A session re-runs the script on every interaction.  A click on          *)
(* "Generate Questions" clears the st.cache_data cache of                  *)
(* generate_questions, calls it, and inserts the returned questions at     *)
(* the head of st.session_state["question_sets"] when they are truthy.     *)
(*                                                                         *)
(* Texts are sequences of tokens.  A token is one character, except that   *)
(* the word json and a whole JSON document are single tokens: "BT" is a    *)
(* backtick, "WS" any whitespace character, "x" any other character.       *)
(***************************************************************************)
EXTENDS Integers, Sequences, FiniteSets, TLC

VARIABLES
    question_sets,     \* per session: st.session_state["question_sets"]
    selected_subject,  \* per session: sidebar selectbox "Select a subject"
    selected_topic,    \* per session: sidebar selectbox "Select a topic"
    question_type,     \* per session: sidebar radio "Select question type"
    num_questions,     \* per session: sidebar slider
    pc,                \* per session: position of the script run
    result,            \* per session: outcome of the last generate_questions call
    shown,             \* per session: messages on the page after the last run
    calls,             \* per session: HTTP requests issued by the current Generate
    served,            \* per session: where the last call's result came from
    cache,             \* process-wide st.cache_data store of generate_questions
    lock,              \* process-wide compute lock of the cached function
    raw,               \* sanitizer harness: the raw model text
    clean,             \* sanitizer harness: the cleanup applied once
    twice,             \* sanitizer harness: the cleanup applied to its output
    stage              \* sanitizer harness: number of applications so far

vars == <<question_sets, selected_subject, selected_topic, question_type,
          num_questions, pc, result, shown, calls, served, cache, lock,
          raw, clean, twice, stage>>

appVars == <<question_sets, selected_subject, selected_topic, question_type,
             num_questions, pc, result, shown, calls, served, cache, lock>>

sanVars == <<raw, clean, twice, stage>>

(***************************************************************************)
(* Bounds                                                                  *)
(***************************************************************************)
MaxSets == 2       \* Generate is offered while a history is shorter than this
MaxLen == 7        \* longest raw text of the sanitizer harness, in tokens

Sessions == {1, 2}

(***************************************************************************)
(* Sidebar settings (lines 123-136)                                        *)
(***************************************************************************)
topics == [Biology |-> {"Cells"}, Physics |-> {"Waves"}]

Subjects == DOMAIN topics

QuestionTypes == {"Multiple Choice", "Short Answer"}

NumChoices == {5, 10}

(***************************************************************************)
(* Python string operations on token sequences                             *)
(***************************************************************************)
Whitespace == {"WS"}

RECURSIVE lstrip(_)
lstrip(t) ==
    IF t # <<>> /\ Head(t) \in Whitespace THEN lstrip(Tail(t)) ELSE t

RECURSIVE rstrip(_)
rstrip(t) ==
    IF t # <<>> /\ t[Len(t)] \in Whitespace
    THEN rstrip(SubSeq(t, 1, Len(t) - 1))
    ELSE t

strip(t) == rstrip(lstrip(t))

startswith(t, p) == Len(t) >= Len(p) /\ SubSeq(t, 1, Len(p)) = p

endswith(t, p) ==
    Len(t) >= Len(p) /\ SubSeq(t, Len(t) - Len(p) + 1, Len(t)) = p

FenceJson == <<"BT", "BT", "BT", "json">>

Fence == <<"BT", "BT", "BT">>

\* lines 91-95: the markdown fence cleanup of generate_questions
sanitize(response_content) ==
    LET a == IF startswith(strip(response_content), FenceJson)
             THEN strip(SubSeq(strip(response_content), Len(FenceJson) + 1,
                               Len(strip(response_content))))
             ELSE response_content
    IN  IF endswith(strip(a), Fence)
        THEN strip(SubSeq(strip(a), 1, Len(strip(a)) - Len(Fence)))
        ELSE a

(***************************************************************************)
(* Values json.loads can return, and the documents the model may send      *)
(***************************************************************************)
PyNone == [type |-> "None", items |-> <<>>]

PyList(items) == [type |-> "list", items |-> items]

OptionLabels == <<"A", "B", "C", "D">>

Question(text, options, answer) ==
    [question |-> text, options |-> options, answer |-> answer]

DocNames == {"doc_q1", "doc_q2", "doc_3opt", "doc_ansE", "doc_empty", "doc_null"}

\* the Python value of each JSON document
Doc(d) ==
    CASE d = "doc_q1"    -> PyList(<<Question(<<"Q1">>, OptionLabels, "A")>>)
      [] d = "doc_q2"    -> PyList(<<Question(<<"WS", "Q1">>, OptionLabels, "B"),
                                     Question(<<"Q2">>, OptionLabels, "C")>>)
      [] d = "doc_3opt"  -> PyList(<<Question(<<"Q3">>, <<"A", "B", "C">>, "A")>>)
      [] d = "doc_ansE"  -> PyList(<<Question(<<"Q4">>, OptionLabels, "E")>>)
      [] d = "doc_empty" -> PyList(<<>>)
      [] d = "doc_null"  -> PyNone

\* line 97: json.loads accepts one JSON document with whitespace around it
json_loads(t) ==
    IF Len(strip(t)) = 1 /\ strip(t)[1] \in DocNames
    THEN [ok |-> TRUE, value |-> Doc(strip(t)[1])]
    ELSE [ok |-> FALSE, value |-> PyNone]

\* the texts the model may put in candidates[0].content.parts[0].text
Payloads == DocNames \cup {"x"}

ModelTexts ==
    UNION {{ <<d>>,
             FenceJson \o <<"WS", d, "WS">> \o Fence,
             Fence \o <<"WS", d, "WS">> \o Fence } : d \in Payloads}

\* shapes of a 2xx response body, by what lines 85-89 do with them
BodyShapes ==
    {"not_json",          \* response.json() raises its JSONDecodeError, caught
     "not_dict",          \* a JSON number: "candidates" in 5 raises TypeError
     "no_candidates",     \* no "candidates" key
     "empty_candidates",  \* "candidates": []
     "no_content",        \* candidates[0] has no "content": KeyError
     "content_null",      \* "content": null: TypeError
     "no_parts",          \* content has no "parts": KeyError
     "empty_parts",       \* "parts": []: IndexError
     "no_text",           \* parts[0] has no "text": KeyError
     "text_not_str",      \* "text": 5: AttributeError on .strip()
     "text"}              \* "text" is a string

Responses ==
    {[http |-> h, shape |-> "none", text |-> <<>>] : h \in {"exception", "status_error"}}
    \cup {[http |-> "ok", shape |-> sh, text |-> <<>>] : sh \in BodyShapes \ {"text"}}
    \cup {[http |-> "ok", shape |-> "text", text |-> t] : t \in ModelTexts}

\* exception types that no except clause of generate_questions catches
Uncaught == {"IndexError", "TypeError", "AttributeError"}

Returned(ret, err, msgs) == [ret |-> ret, err |-> err, msgs |-> msgs]

\* lines 78-111: what generate_questions does with the answer to its request
generate_questions(resp) ==
    IF resp.http \in {"exception", "status_error"} \/ resp.shape = "not_json"
    THEN Returned(PyNone, "RequestException", {"http_error", "tip"})
    ELSE IF resp.shape = "not_dict" \/ resp.shape = "content_null"
    THEN Returned(PyNone, "TypeError", {})
    ELSE IF resp.shape \in {"no_candidates", "empty_candidates"}
    THEN Returned(PyNone, "NoCandidates", {"no_content_error", "raw_response"})
    ELSE IF resp.shape \in {"no_content", "no_parts", "no_text"}
    THEN Returned(PyNone, "KeyError", {"parse_error", "raw_data"})
    ELSE IF resp.shape = "empty_parts"
    THEN Returned(PyNone, "IndexError", {})
    ELSE IF resp.shape = "text_not_str"
    THEN Returned(PyNone, "AttributeError", {})
    ELSE LET parsed == json_loads(sanitize(resp.text))
         IN  IF parsed.ok
             THEN Returned(parsed.value, "none", {})
             ELSE Returned(PyNone, "JSONDecodeError", {"parse_error", "raw_data"})

(***************************************************************************)
(* The st.cache_data store of generate_questions (lines 26, 141, 143)      *)
(***************************************************************************)
EmptyCache == [k \in {} |-> Returned(PyNone, "none", {})]

\* a faulty clear that leaves the cache as it is (C7 must not survive it)
clear_nothing(c) == c

\* line 141: generate_questions.clear()
clear(c) == EmptyCache

cache_write(c, key, r) ==
    [k \in DOMAIN c \cup {key} |-> IF k = key THEN r ELSE c[k]]

\* line 143: the arguments of the call, which are the cache key
Key(s) ==
    <<selected_subject[s], selected_topic[s], question_type[s], num_questions[s]>>

(***************************************************************************)
(* The button handler and the display section (lines 139-183)              *)
(***************************************************************************)
\* line 145: if questions:
Truthy(v) == v.type = "list" /\ v.items # <<>>

\* a faulty insert that appends the new set at the end (C8 must not survive it)
insert_last(sets, new_set) == Append(sets, new_set)

\* line 147: question_sets.insert(0, new_set)
insert0(sets, new_set) == <<new_set>> \o sets

\* lines 147-152: the set built from the sidebar selection
NewSet(s, questions) ==
    [subject |-> selected_subject[s], topic |-> selected_topic[s],
     type |-> question_type[s], questions |-> questions.items]

\* a faulty handler that inserts whatever the call returned (C1 must not survive it)
StoredUnchecked(s, r) ==
    IF r.err \notin Uncaught
    THEN insert0(question_sets[s], NewSet(s, r.ret))
    ELSE question_sets[s]

\* lines 145-152: the history after the call returned r (or raised)
Stored(s, r) ==
    IF r.err \notin Uncaught /\ Truthy(r.ret)
    THEN insert0(question_sets[s], NewSet(s, r.ret))
    ELSE question_sets[s]

\* lines 155-183: what the display section adds to the page
display_messages(sets) == IF sets = <<>> THEN {"begin_info"} ELSE {}

\* the page after a run whose call gave r: the call's own messages, then
\* the display section, or Streamlit's exception box when the run died
Page(s, r) ==
    IF r.err \in Uncaught
    THEN r.msgs \cup {"exception"}
    ELSE r.msgs \cup display_messages(Stored(s, r))

\* the rest of the script run once generate_questions is done
Finish(s, r, from) ==
    /\ question_sets' = [question_sets EXCEPT ![s] = Stored(s, r)]
    /\ shown' = [shown EXCEPT ![s] = Page(s, r)]
    /\ result' = [result EXCEPT ![s] = r]
    /\ served' = [served EXCEPT ![s] = from]
    /\ pc' = [pc EXCEPT ![s] = "idle"]

(***************************************************************************)
(* Initial state: every session has loaded the page once                   *)
(***************************************************************************)
AppInit ==
    /\ question_sets = [s \in Sessions |-> <<>>]
    /\ selected_subject = [s \in Sessions |-> "Biology"]
    /\ selected_topic = [s \in Sessions |-> "Cells"]
    /\ question_type = [s \in Sessions |-> "Multiple Choice"]
    /\ num_questions = [s \in Sessions |-> 10]
    /\ pc = [s \in Sessions |-> "idle"]
    /\ result = [s \in Sessions |-> Returned(PyNone, "init", {})]
    /\ shown = [s \in Sessions |-> {"begin_info"}]
    /\ calls = [s \in Sessions |-> 0]
    /\ served = [s \in Sessions |-> "none"]
    /\ cache = EmptyCache
    /\ lock = 0

SanIdle == raw = <<>> /\ clean = <<>> /\ twice = <<>> /\ stage = 0

Init == AppInit /\ SanIdle

(***************************************************************************)
(* Actions                                                                 *)
(***************************************************************************)
\* lines 130-136: a sidebar widget changes and the script re-runs
Select(s, subject, topic, qtype, n) ==
    /\ pc[s] = "idle"
    /\ topic \in topics[subject]
    /\ selected_subject' = [selected_subject EXCEPT ![s] = subject]
    /\ selected_topic' = [selected_topic EXCEPT ![s] = topic]
    /\ question_type' = [question_type EXCEPT ![s] = qtype]
    /\ num_questions' = [num_questions EXCEPT ![s] = n]
    /\ shown' = [shown EXCEPT ![s] = display_messages(question_sets[s])]
    /\ UNCHANGED <<question_sets, pc, result, calls, served, cache, lock>>
    /\ UNCHANGED sanVars

\* lines 139-141: the button is clicked and the cache is cleared
Generate_clear(s) ==
    /\ pc[s] = "idle"
    /\ Len(question_sets[s]) < MaxSets
    /\ cache' = clear(cache)
    /\ calls' = [calls EXCEPT ![s] = 0]
    /\ served' = [served EXCEPT ![s] = "none"]
    /\ shown' = [shown EXCEPT ![s] = {}]
    /\ pc' = [pc EXCEPT ![s] = "cleared"]
    /\ UNCHANGED <<question_sets, selected_subject, selected_topic,
                   question_type, num_questions, result, lock>>
    /\ UNCHANGED sanVars

\* line 143: the cached function is called.  On a hit the stored value and
\* its messages are replayed and the run goes on; on a miss the body runs
\* under the compute lock and line 80 posts the request
Generate_call(s) ==
    /\ pc[s] = "cleared"
    /\ IF Key(s) \in DOMAIN cache
       THEN /\ Finish(s, cache[Key(s)], "cache")
            /\ UNCHANGED <<calls, lock>>
       ELSE /\ lock = 0
            /\ lock' = s
            /\ calls' = [calls EXCEPT ![s] = @ + 1]
            /\ pc' = [pc EXCEPT ![s] = "waiting"]
            /\ UNCHANGED <<question_sets, result, shown, served>>
    /\ UNCHANGED <<selected_subject, selected_topic, question_type,
                   num_questions, cache>>
    /\ UNCHANGED sanVars

\* lines 80-111 and 145-183: the request is answered (or fails); a returned
\* value is stored in the cache, an exception is not
Generate_response(s, resp) ==
    /\ pc[s] = "waiting"
    /\ lock = s
    /\ LET r == generate_questions(resp)
       IN  /\ cache' = IF r.err \in Uncaught THEN cache
                       ELSE cache_write(cache, Key(s), r)
           /\ Finish(s, r, "request")
    /\ lock' = 0
    /\ UNCHANGED <<selected_subject, selected_topic, question_type,
                   num_questions, calls>>
    /\ UNCHANGED sanVars

Step(s) ==
    \/ \E subject \in Subjects, qtype \in QuestionTypes, n \in NumChoices :
          \E topic \in topics[subject] : Select(s, subject, topic, qtype, n)
    \/ Generate_clear(s)
    \/ Generate_call(s)
    \/ \E resp \in Responses : Generate_response(s, resp)

\* one browser session
Next == Step(1)

Spec == Init /\ [][Next]_vars

\* the sessions of one server process, all left on the default settings
Generate(s) ==
    \/ Generate_clear(s)
    \/ Generate_call(s)
    \/ \E resp \in Responses : Generate_response(s, resp)

NextShared == \E s \in Sessions : Generate(s)

SpecShared == Init /\ [][NextShared]_vars

(***************************************************************************)
(* The fence cleanup on its own: every text of up to MaxLen tokens         *)
(***************************************************************************)
Chars == {"BT", "json", "WS", "x"}

BoundedTexts == UNION {[1..n -> Chars] : n \in 0..MaxLen}

InitSanitize ==
    /\ AppInit
    /\ raw \in BoundedTexts
    /\ clean = <<>>
    /\ twice = <<>>
    /\ stage = 0

\* lines 91-95 applied to the raw text
Sanitize_once ==
    /\ stage = 0
    /\ clean' = sanitize(raw)
    /\ stage' = 1
    /\ UNCHANGED <<raw, twice>>
    /\ UNCHANGED appVars

\* lines 91-95 applied to their own output
Sanitize_again ==
    /\ stage = 1
    /\ twice' = sanitize(clean)
    /\ stage' = 2
    /\ UNCHANGED <<raw, clean>>
    /\ UNCHANGED appVars

NextSanitize == Sanitize_once \/ Sanitize_again

SpecSanitize == InitSanitize /\ [][NextSanitize]_vars

(***************************************************************************)
(* Helpers of the properties                                               *)
(***************************************************************************)
\* a script run of session s ends in this step
Completes(s) == pc[s] # "idle" /\ pc'[s] = "idle"

\* the positions <<set, question>> of the history of session s
Positions(s) ==
    UNION {{<<i, j>> : j \in 1..Len(question_sets[s][i].questions)} :
              i \in 1..Len(question_sets[s])}

TextAt(s, p) == strip(question_sets[s][p[1]].questions[p[2]].question)

Range(f) == {f[i] : i \in DOMAIN f}

\* messages that report on a Generate action
ActionMessages ==
    {"http_error", "tip", "no_content_error", "raw_response", "parse_error",
     "raw_data", "exception"}

IsWhitespace(t) == \A i \in DOMAIN t : t[i] \in Whitespace

\* t is: whitespace, open, whitespace, inner, whitespace, Fence, whitespace
Fenced(t, open, inner) ==
    /\ inner = strip(inner)
    /\ \E i \in 0..Len(t), j \in 0..Len(t) :
          /\ i + Len(open) <= j
          /\ j + Len(Fence) <= Len(t)
          /\ IsWhitespace(SubSeq(t, 1, i))
          /\ SubSeq(t, i + 1, i + Len(open)) = open
          /\ strip(SubSeq(t, i + Len(open) + 1, j)) = inner
          /\ SubSeq(t, j + 1, j + Len(Fence)) = Fence
          /\ IsWhitespace(SubSeq(t, j + Len(Fence) + 1, Len(t)))

\* every contiguous piece of t
Pieces(t) == {SubSeq(t, i, j) : i \in 1..Len(t) + 1, j \in 0..Len(t)}

Unfenced(t) ==
    /\ ~startswith(strip(t), Fence)
    /\ ~endswith(strip(t), Fence)

(***************************************************************************)
(* Properties                                                              *)
(***************************************************************************)
\* C1: a Generate action whose pipeline run fails leaves the history of the
\* session as it was: the history changes only in the step that completes a
\* run whose call returned a parsed value.
C1_FailureKeepsHistory ==
    [][\A s \in Sessions :
          question_sets'[s] # question_sets[s]
              => Completes(s) /\ result'[s].err = "none"]_vars

\* C1 witness: a run failed after an earlier one had stored a set.
C1_Witness ==
    /\ pc[1] = "idle"
    /\ result[1].err \in {"RequestException", "NoCandidates", "JSONDecodeError"}
    /\ Len(question_sets[1]) >= 1

\* C2: generate_questions never lets an exception escape: it returns a
\* parsed value or None.
C2_NeverRaises == \A s \in Sessions : result[s].err \notin Uncaught

\* C3: no trimmed question text appears twice in the history of a session.
C3_NoRepeatedText ==
    \A s \in Sessions : \A p \in Positions(s), q \in Positions(s) :
        p # q => TextAt(s, p) # TextAt(s, q)

\* C4: every Multiple Choice question in a history has exactly 4 options
\* and a correct answer that is one of its option labels.
C4_StoredChoicesValid ==
    \A s \in Sessions : \A i \in 1..Len(question_sets[s]) :
        question_sets[s][i].type = "Multiple Choice"
            => \A j \in 1..Len(question_sets[s][i].questions) :
                  LET q == question_sets[s][i].questions[j]
                  IN  Len(q.options) = 4 /\ q.answer \in Range(q.options)

\* C5: the fence cleanup is idempotent: applied to its own output it gives
\* that output back.
C5_Idempotent == stage = 2 => twice = clean

\* C6: a text of the form whitespace, "```json" or "```", whitespace, inner,
\* whitespace, "```", whitespace is cleaned to exactly inner; a text without
\* fences is returned unchanged apart from outer whitespace.
C6_ReturnsInner ==
    stage >= 1 =>
        /\ \A open \in {FenceJson, Fence} : \A inner \in Pieces(raw) :
              Fenced(raw, open, inner) => clean = inner
        /\ Unfenced(raw) => strip(clean) = strip(raw)

\* C7: in a single session every Generate action issues exactly one HTTP
\* request: none is answered from the cache and none is retried.
C7_OneRequestPerGenerate ==
    \A s \in Sessions :
        /\ pc[s] = "cleared" => calls[s] = 0
        /\ pc[s] = "waiting" => calls[s] = 1
        /\ pc[s] = "idle" /\ result[s].err # "init"
              => calls[s] = 1 /\ served[s] = "request"

\* C7 witness: the same request was generated twice in a row, and the
\* second Generate still issued its own request.
C7_Witness ==
    /\ pc[1] = "idle"
    /\ Len(question_sets[1]) = 2
    /\ question_sets[1][1] = question_sets[1][2]
    /\ calls[1] = 1

\* C8: the history is most-recent-first and its entries never change: a
\* successful generation puts one set, carrying the selected subject, topic
\* and type, at index 0 and shifts the older sets down unchanged; nothing
\* else changes the history.
C8_NewestFirst ==
    [][\A s \in Sessions :
          /\ question_sets'[s] # question_sets[s]
                => /\ Len(question_sets'[s]) = Len(question_sets[s]) + 1
                   /\ Tail(question_sets'[s]) = question_sets[s]
                   /\ question_sets'[s][1].subject = selected_subject[s]
                   /\ question_sets'[s][1].topic = selected_topic[s]
                   /\ question_sets'[s][1].type = question_type[s]
          /\ (/\ Completes(s)
              /\ result'[s].err = "none"
              /\ result'[s].ret.type = "list"
              /\ result'[s].ret.items # <<>>)
                => /\ Len(question_sets'[s]) = Len(question_sets[s]) + 1
                   /\ question_sets'[s][1].questions = result'[s].ret.items]_vars

\* C8 witness: two sets of different subjects are in the history.
C8_Witness ==
    /\ Len(question_sets[1]) = 2
    /\ question_sets[1][1].subject # question_sets[1][2].subject

\* C9: a Generate action that ends without adding a set to the history has
\* shown the user a message about it.
C9_NeverSilent ==
    [][\A s \in Sessions :
          Completes(s) /\ question_sets'[s] = question_sets[s]
              => shown'[s] \cap ActionMessages # {}]_vars

\* C10: with sessions sharing the process, every Generate action gets its
\* questions from an HTTP request it issued itself, never from a result
\* another session's call put in the cache.
C10_OwnRequest ==
    \A s \in Sessions :
        pc[s] = "idle" /\ result[s].err # "init" => served[s] = "request"

=============================================================================
